---- MODULE Spec2Model ----
(***************************************************************************)
(* LinkShare: content scan, ancestor-aware password gate, GET/POST         *)
(* handlers.  Strings are sequences of one-character strings, so that      *)
(* split, join, startsWith and the numeric-prefix strip are computed.      *)
(***************************************************************************)
EXTENDS Integers, Sequences, FiniteSets, TLC

VARIABLES fs, isDev, cached, cache, inflight, cookie, now, resp, call

vars == <<fs, isDev, cached, cache, inflight, cookie, now, resp, call>>

(* ------------------------------ bounds -------------------------------- *)

\* most directories below the content root in a content tree
MaxDirs == 2

\* most invocations of getState in a behaviour with concurrent requests
MaxRequests == 3

\* days the clock of the token specification runs for
MaxDays == 1

\* milliseconds into a day that its clock is followed
MaxMillis == 1

(* ------------------------------ options ------------------------------- *)

\* a JavaScript optional value: {} is undefined, {v} is the value v
None == {}

Some(v) == {v}

The(o) == CHOOSE v \in o : TRUE

(* ------------------------------ strings ------------------------------- *)

Digits == {"0", "1", "2", "3", "4", "5", "6", "7", "8", "9"}

startsWith(s, p) == Len(p) <= Len(s) /\ SubSeq(s, 1, Len(p)) = p

endsWith(s, p) == Len(p) <= Len(s) /\ SubSeq(s, Len(s) - Len(p) + 1, Len(s)) = p

\* s.split("/"): the pieces between slashes, empty pieces included
RECURSIVE SplitFrom(_, _, _)
SplitFrom(s, i, cur) ==
  IF i > Len(s) THEN <<cur>>
  ELSE IF s[i] = "/" THEN <<cur>> \o SplitFrom(s, i + 1, <<>>)
  ELSE SplitFrom(s, i + 1, Append(cur, s[i]))

split(s) == SplitFrom(s, 1, <<>>)

\* .filter(Boolean) on an array of strings: the empty strings go
filterBoolean(parts) == SelectSeq(parts, LAMBDA x : x # <<>>)

\* parts.join("/")
RECURSIVE joinSlash(_)
joinSlash(parts) ==
  IF parts = <<>> THEN <<>>
  ELSE IF Len(parts) = 1 THEN parts[1]
  ELSE parts[1] \o <<"/">> \o joinSlash(Tail(parts))

\* urlPath.split("/").pop()
lastSegment(s) == LET parts == split(s) IN parts[Len(parts)]

\* name.replace(/^\d+-/, ""): the leading digits, when a "-" follows them
LeadingDigits(name) ==
  CHOOSE k \in 0..Len(name) :
    /\ \A i \in 1..k : name[i] \in Digits
    /\ (k = Len(name) \/ name[k + 1] \notin Digits)

stripNumericPrefix(name) ==
  LET k == LeadingDigits(name)
  IN  IF k >= 1 /\ k < Len(name) /\ name[k + 1] = "-"
      THEN SubSeq(name, k + 2, Len(name))
      ELSE name

\* a.name.localeCompare(b.name) < 0: punctuation before digits before letters
CharRank(c) ==
  CASE c = "-" -> 1
    [] c = "." -> 2
    [] c = "0" -> 10 [] c = "1" -> 11 [] c = "2" -> 12 [] c = "3" -> 13
    [] c = "4" -> 14 [] c = "5" -> 15 [] c = "6" -> 16 [] c = "7" -> 17
    [] c = "8" -> 18 [] c = "9" -> 19
    [] c = "a" -> 30 [] c = "b" -> 31 [] c = "c" -> 32 [] c = "f" -> 35
    [] OTHER -> 40

RECURSIVE localeBefore(_, _)
localeBefore(a, b) ==
  IF a = <<>> THEN b # <<>>
  ELSE IF b = <<>> THEN FALSE
  ELSE IF CharRank(a[1]) # CharRank(b[1]) THEN CharRank(a[1]) < CharRank(b[1])
  ELSE localeBefore(Tail(a), Tail(b))

\* the names of a set as the array .sort((a, b) => a.name.localeCompare(b.name)) leaves it
RECURSIVE sortNames(_)
sortNames(names) ==
  IF names = {} THEN <<>>
  ELSE LET first == CHOOSE n \in names : \A m \in names \ {n} : localeBefore(n, m)
       IN  <<first>> \o sortNames(names \ {first})

(* ------------------------------- paths -------------------------------- *)

\* path.normalize on the segments of an absolute path: "." and "" go, ".." pops
RECURSIVE normalizeSegs(_, _)
normalizeSegs(segs, acc) ==
  IF segs = <<>> THEN acc
  ELSE LET s == segs[1]
       IN  IF s = <<>> \/ s = <<".">> THEN normalizeSegs(Tail(segs), acc)
           ELSE IF s = <<".", ".">>
                THEN normalizeSegs(Tail(segs),
                                   IF acc = <<>> THEN acc ELSE SubSeq(acc, 1, Len(acc) - 1))
                ELSE normalizeSegs(Tail(segs), Append(acc, s))

\* path.resolve of an absolute path: normalized, no trailing slash
resolve(p) == <<"/">> \o joinSlash(normalizeSegs(split(p), <<>>))

\* path.join(a, b) of an absolute a: a + "/" + b normalized, a trailing slash kept
join(a, b) ==
  LET raw == a \o <<"/">> \o b
      norm == resolve(raw)
  IN  IF raw[Len(raw)] = "/" /\ norm # <<"/">> THEN norm \o <<"/">> ELSE norm

(* ------------------------------ themes -------------------------------- *)

\* COLOR_500[color]: the 500 shade of a palette, undefined for an unknown one
COLOR_500(color) ==
  CASE color = "indigo" -> Some("#6366f1")
    [] color = "red" -> Some("#ef4444")
    [] color = "blue" -> Some("#3b82f6")
    [] color = "slate" -> Some("#64748b")
    [] OTHER -> None

\* the registry loadThemes returns: theme name -> its defaults
loadThemes ==
  [name \in {"default", "mono"} |->
     IF name = "default"
     THEN [font |-> "Inter", color |-> "indigo", dark |-> "auto",
           background_color |-> "#0f172a",
           background_color_dark |-> None, background_color_light |-> None]
     ELSE [font |-> "Mono", color |-> "slate", dark |-> "true",
           background_color |-> "#000000",
           background_color_dark |-> Some("#111111"),
           background_color_light |-> Some("#eeeeee")]]

getThemeDefaults(name, themes) ==
  IF name \in DOMAIN themes THEN themes[name]
  ELSE IF "default" \in DOMAIN themes THEN themes["default"]
  ELSE [font |-> "Inter", color |-> "indigo", dark |-> "auto",
        background_color |-> "#0f172a",
        background_color_dark |-> None, background_color_light |-> None]

(* ------------------------------ configs ------------------------------- *)

\* a parsed config.toml that sets nothing
EmptyConfig ==
  [password |-> None, inherit |-> None, hidden |-> None, theme |-> None,
   color |-> None, dark |-> None, font |-> None, background |-> None,
   background_color |-> None, logo |-> None, accent_color |-> None,
   locale |-> None, cdn |-> None]

\* !!config.password for a string password: set and not ""
hasPassword(config) == config.password # None /\ The(config.password) # <<>>

\* a ?? b on optional values
Coalesce(a, b) == IF a # None THEN a ELSE b

CDN_DEFAULTS ==
  [js |-> "cdnjs", fonts |-> "google", font_weights |-> "300-700",
   hljs_theme |-> "github", hljs_theme_dark |-> "github-dark"]

\* config.cdn?.field
cdnField(config, field) ==
  IF config.cdn = None THEN None
  ELSE IF field \in DOMAIN The(config.cdn) THEN Some(The(config.cdn)[field]) ELSE None

\* parent is the optional parent section; the result is a ResolvedStyle whose
\* optional fields (background, logo, background_color_dark/light) are options
resolveStyle(config, parent, themes) ==
  LET inherit == config.inherit # Some(FALSE)
      themeName ==
        IF config.theme # None THEN The(config.theme)
        ELSE IF inherit /\ parent # None THEN The(parent).style.theme
        ELSE "default"
      themeDefaults == getThemeDefaults(themeName, themes)
      themeChanged ==
        /\ config.theme # None /\ The(config.theme) # ""
        /\ (parent = None \/ The(config.theme) # The(parent).style.theme)
      base ==
        IF inherit /\ parent # None /\ ~themeChanged
        THEN The(parent).style
        ELSE [theme |-> themeName,
              color |-> themeDefaults.color,
              dark |-> themeDefaults.dark,
              font |-> themeDefaults.font,
              background |-> None,
              background_color |-> themeDefaults.background_color,
              background_color_dark |-> themeDefaults.background_color_dark,
              background_color_light |-> themeDefaults.background_color_light,
              logo |-> None,
              accent_color |-> The(Coalesce(COLOR_500(themeDefaults.color), Some("#6366f1"))),
              locale |-> "en",
              cdn |-> CDN_DEFAULTS]
      color == The(Coalesce(config.color, Some(base.color)))
  IN  [theme |-> themeName,
       color |-> color,
       dark |-> The(Coalesce(config.dark, Some(base.dark))),
       font |-> The(Coalesce(config.font, Some(base.font))),
       background |-> Coalesce(config.background, IF inherit THEN base.background ELSE None),
       background_color |-> The(Coalesce(config.background_color, Some(base.background_color))),
       background_color_dark |-> base.background_color_dark,
       background_color_light |-> base.background_color_light,
       logo |-> Coalesce(config.logo, IF inherit THEN base.logo ELSE None),
       accent_color |->
         The(Coalesce(config.accent_color, Coalesce(COLOR_500(color), Some(base.accent_color)))),
       locale |-> The(Coalesce(config.locale, Some(base.locale))),
       cdn |-> [f \in DOMAIN CDN_DEFAULTS |-> The(Coalesce(cdnField(config, f), Some(base.cdn[f])))]]

(* ---------------------------- file system ----------------------------- *)

\* CONTENT_DIR: the resolved content root, "/c"
CONTENT_DIR == <<"/", "c">>

ConfigName == <<"c", "o", "n", "f", "i", "g", ".", "t", "o", "m", "l">>

\* every directory of a modelled content tree holds one asset file, "f"
AssetName == <<"f">>

\* files of the host outside the content root: "/cx/f" and "/f"
outsideFiles == {<<"/", "c", "x", "/", "f">>, <<"/", "f">>}

\* directory names a content tree is built from: "a" and "1-a"
Names == {<<"a">>, <<"1", "-", "a">>}

\* a content tree fs maps each directory (the sequence of directory names from
\* the content root, <<>> for the root) to [config: the parsed config.toml, None
\* when the directory holds none]
absDir(dir) == IF dir = <<>> THEN CONTENT_DIR ELSE CONTENT_DIR \o <<"/">> \o joinSlash(dir)

\* the regular files of the host: assets and config files of the tree, and the outside files
regularFiles(fsys) ==
  {absDir(d) \o <<"/">> \o AssetName : d \in DOMAIN fsys}
    \cup {absDir(d) \o <<"/">> \o ConfigName : d \in {e \in DOMAIN fsys : fsys[e].config # None}}
    \cup outsideFiles

\* await Bun.file(p).exists(): a regular file is there
fileExists(files, p) == p \in files

\* the directory sets of the trees with at most k directories below the root
RECURSIVE Shapes(_)
Shapes(k) ==
  IF k = 0 THEN {{<<>>}}
  ELSE LET smaller == Shapes(k - 1)
       IN  smaller \cup UNION {{D \cup {Append(d, n)} : d \in D, n \in Names} : D \in smaller}

\* the configs a directory of a modelled tree may hold, for the passwords pws
DirChoices(pws) ==
  {[config |-> None]} \cup {[config |-> Some([EmptyConfig EXCEPT !.password = pw])] : pw \in pws}

Trees(pws, k) == UNION {[D -> DirChoices(pws)] : D \in Shapes(k)}

(* ------------------------------- scanner ------------------------------ *)

\* the content of a config.toml that is not valid TOML
Malformed == [malformed |-> TRUE]

\* parse(text) throws: the directory's config.toml is malformed
parseThrows(fsys, dir) ==
  fsys[dir].config # None /\ "malformed" \in DOMAIN The(fsys[dir].config)

\* readdir(dir) throws: the directory cannot be listed
readdirThrows(fsys, dir) == "unreadable" \in DOMAIN fsys[dir]

\* what a failed scanContent leaves its caller with: the error of parse
ScanError == [error |-> "ConfigParseError"]

\* the config scanDirectory works with: the parsed file, or the default when
\* the directory holds no config.toml
configOf(fsys, dir) == IF fsys[dir].config # None THEN The(fsys[dir].config) ELSE EmptyConfig

\* the names of the subdirectories readdir lists for dir
subdirNames(fsys, dir) ==
  {e[Len(e)] : e \in {x \in DOMAIN fsys : Len(x) = Len(dir) + 1 /\ SubSeq(x, 1, Len(dir)) = dir}}

\* isProtected that takes the empty password for a password
isProtected_emptyCounts(config, parent) ==
  config.password # None \/ (IF parent = None THEN FALSE ELSE The(parent).protected)

\* isProtected that forgets the parent
isProtected_ownOnly(config, parent) == hasPassword(config)

\* isProtected that takes the parent's flag only when the section inherits
isProtected_whenInherit(config, parent) ==
  hasPassword(config)
    \/ (config.inherit # Some(FALSE) /\ (IF parent = None THEN FALSE ELSE The(parent).protected))

\* const isProtected = !!config.password || (parent?.protected ?? false)
isProtected(config, parent) ==
  hasPassword(config) \/ (IF parent = None THEN FALSE ELSE The(parent).protected)

\* scanDirectory(dir, urlPath, parent, sections, getDefaults): the sections it
\* registers with sections.set, in the order of the calls.  A section is
\* [slug, path, dirPath, config, parent, style, protected, hidden]; dirPath is
\* the directory as names from the content root and is the section's identity,
\* parent is the optional dirPath of the parent section.
RECURSIVE scanDirectory(_, _, _, _, _)
RECURSIVE scanEntries(_, _, _, _, _, _)

scanDirectory(fsys, dir, urlPath, parent, themes) ==
  LET config == configOf(fsys, dir)
      section ==
        [slug |-> IF urlPath = <<"/">> THEN <<>> ELSE lastSegment(urlPath),
         path |-> urlPath,
         dirPath |-> dir,
         config |-> config,
         parent |-> IF parent = None THEN None ELSE Some(The(parent).dirPath),
         style |-> resolveStyle(config, parent, themes),
         protected |-> isProtected(config, parent),
         hidden |-> config.hidden = Some(TRUE)]
      sorted == IF readdirThrows(fsys, dir) THEN <<>>
                ELSE sortNames({n \in subdirNames(fsys, dir) : ~startsWith(n, <<".">>)})
  IN  <<section>> \o scanEntries(fsys, dir, urlPath, section, themes, sorted)

\* scanEntries that builds the child path without the case of the root
scanEntries_noRootCase(fsys, dir, urlPath, section, themes, entries) ==
  IF entries = <<>> THEN <<>>
  ELSE LET name == entries[1]
           childPath == urlPath \o <<"/">> \o stripNumericPrefix(name)
           childDir == Append(dir, name)
           scanned == IF fsys[childDir].config # None
                      THEN scanDirectory(fsys, childDir, childPath, Some(section), themes)
                      ELSE <<>>
       IN  IF parseThrows(fsys, childDir) THEN <<>>
           ELSE scanned \o scanEntries(fsys, dir, urlPath, section, themes, Tail(entries))

\* the loop over the sorted entries of one directory
scanEntries(fsys, dir, urlPath, section, themes, entries) ==
  IF entries = <<>> THEN <<>>
  ELSE LET name == entries[1]
           childSlug == stripNumericPrefix(name)
           childPath == IF urlPath = <<"/">> THEN <<"/">> \o childSlug
                        ELSE urlPath \o <<"/">> \o childSlug
           childDir == Append(dir, name)
           scanned == IF fsys[childDir].config # None
                      THEN scanDirectory(fsys, childDir, childPath, Some(section), themes)
                      ELSE <<>>
       IN  IF parseThrows(fsys, childDir) THEN <<>>
           ELSE scanned \o scanEntries(fsys, dir, urlPath, section, themes, Tail(entries))

\* the index of the last registration under a path: later sections.set calls win
lastIndexOf(regs, path) ==
  CHOOSE i \in 1..Len(regs) :
    regs[i].path = path /\ \A j \in (i + 1)..Len(regs) : regs[j].path # path

\* section.children of the section registered at index i: the sections whose
\* parent it is, in registration order
childrenOf(regs, i) ==
  LET idx == SelectSeq([j \in 1..Len(regs) |-> j],
                       LAMBDA j : regs[j].parent = Some(regs[i].dirPath))
  IN  [k \in 1..Len(idx) |-> regs[idx[k]].dirPath]

\* scanContent(contentDir, getDefaults): [root, sections, arena]; sections maps a
\* URL path to the dirPath of the section stored under it, arena maps a dirPath
\* to the Section object (children included)
scanContent(fsys, themes) ==
  LET regs == scanDirectory(fsys, <<>>, <<"/">>, None, themes)
  IN  IF parseThrows(fsys, <<>>) THEN ScanError ELSE
      [root |-> <<>>,
       sections |-> [p \in {regs[i].path : i \in 1..Len(regs)} |->
                       regs[lastIndexOf(regs, p)].dirPath],
       arena |-> [d \in {regs[i].dirPath : i \in 1..Len(regs)} |->
                    LET i == CHOOSE j \in 1..Len(regs) : regs[j].dirPath = d
                    IN  [slug |-> regs[i].slug, path |-> regs[i].path,
                         dirPath |-> regs[i].dirPath, config |-> regs[i].config,
                         parent |-> regs[i].parent, style |-> regs[i].style,
                         protected |-> regs[i].protected, hidden |-> regs[i].hidden,
                         children |-> childrenOf(regs, i)]]]

\* sections.get(urlPath): the optional section stored under the path
sectionsGet(scan, urlPath) ==
  IF urlPath \in DOMAIN scan.sections THEN Some(scan.arena[scan.sections[urlPath]]) ELSE None

(* ---------------------------- authorization --------------------------- *)

\* isAuthorizedFrom where an authorized section unlocks everything above it
RECURSIVE isAuthorizedFrom_inherited(_, _, _)
isAuthorizedFrom_inherited(scan, current, authedPaths) ==
  IF current = None THEN TRUE
  ELSE LET cur == scan.arena[The(current)]
       IN  IF hasPassword(cur.config) /\ cur.path \notin authedPaths THEN FALSE
           ELSE IF hasPassword(cur.config) THEN TRUE
           ELSE isAuthorizedFrom_inherited(scan, cur.parent, authedPaths)

\* isAuthorizedFrom with the "!" of !authedPaths.has(...) lost
RECURSIVE isAuthorizedFrom_negated(_, _, _)
isAuthorizedFrom_negated(scan, current, authedPaths) ==
  IF current = None THEN TRUE
  ELSE LET cur == scan.arena[The(current)]
       IN  IF hasPassword(cur.config) /\ cur.path \in authedPaths THEN FALSE
           ELSE isAuthorizedFrom_negated(scan, cur.parent, authedPaths)

\* the while loop of isAuthorized from current (an optional dirPath) upwards
RECURSIVE isAuthorizedFrom(_, _, _)
isAuthorizedFrom(scan, current, authedPaths) ==
  IF current = None THEN TRUE
  ELSE LET cur == scan.arena[The(current)]
       IN  IF hasPassword(cur.config) /\ cur.path \notin authedPaths THEN FALSE
           ELSE isAuthorizedFrom(scan, cur.parent, authedPaths)

\* isAuthorized that looks at the section's own password only
isAuthorized_selfOnly(scan, section, authedPaths) ==
  ~(hasPassword(section.config) /\ section.path \notin authedPaths)

\* section is a Section object of scan
isAuthorized(scan, section, authedPaths) ==
  isAuthorizedFrom(scan, Some(section.dirPath), authedPaths)

\* findLockingFrom that stops at the first locked section it meets
RECURSIVE findLockingFrom_first(_, _, _, _)
findLockingFrom_first(scan, current, locker, authedPaths) ==
  IF current = None THEN locker
  ELSE LET cur == scan.arena[The(current)]
       IN  IF hasPassword(cur.config) /\ cur.path \notin authedPaths THEN cur.dirPath
           ELSE findLockingFrom_first(scan, cur.parent, locker, authedPaths)

\* the while loop of findLockingSection: locker is the dirPath found so far
RECURSIVE findLockingFrom(_, _, _, _)
findLockingFrom(scan, current, locker, authedPaths) ==
  IF current = None THEN locker
  ELSE LET cur == scan.arena[The(current)]
       IN  findLockingFrom(scan, cur.parent,
                           IF hasPassword(cur.config) /\ cur.path \notin authedPaths
                           THEN cur.dirPath ELSE locker,
                           authedPaths)

findLockingSection(scan, section, authedPaths) ==
  scan.arena[findLockingFrom(scan, Some(section.dirPath), section.dirPath, authedPaths)]

\* findOwningSection(sections, urlPath): the while loop over the popped parts
RECURSIVE findOwningFrom(_, _)
findOwningFrom(scan, parts) ==
  IF Len(parts) = 0 THEN sectionsGet(scan, <<"/">>)
  ELSE LET popped == SubSeq(parts, 1, Len(parts) - 1)
           sectionPath == IF Len(popped) = 0 THEN <<"/">> ELSE <<"/">> \o joinSlash(popped)
           section == sectionsGet(scan, sectionPath)
       IN  IF section # None THEN section ELSE findOwningFrom(scan, popped)

findOwningSection(scan, urlPath) == findOwningFrom(scan, filterBoolean(split(urlPath)))

(* ------------------------------- tokens ------------------------------- *)

\* const TOKEN_EXPIRY = 24 * 60 * 60 * 1000, in milliseconds
TOKEN_EXPIRY == 24 * 60 * 60 * 1000

\* AUTH_SECRET, the server's key
AUTH_SECRET == "server-secret"

\* Date.now().toString(): the decimal digits of a time in milliseconds
RECURSIVE toString(_)
toString(n) ==
  LET digit == <<"0", "1", "2", "3", "4", "5", "6", "7", "8", "9">>[(n % 10) + 1]
  IN  IF n < 10 THEN <<digit>> ELSE Append(toString(n \div 10), digit)

\* `${path}:${timestamp}`, the text that is signed
tokenMessage(path, timestamp) == path \o <<":">> \o toString(timestamp)

\* createHmac("sha256", key).update(message).digest("hex"): a digest is
\* determined by its key and message and by nothing else
hmacSha256(key, message) == [key |-> key, message |-> message]

\* the token `${timestamp}:${hmac}` made at time t
createAuthToken(path, secret, t) ==
  [timestamp |-> t, hmac |-> hmacSha256(secret, tokenMessage(path, t))]

\* verifyAuthToken that does not look at the age of the token
verifyAuthToken_noExpiry(token, path, secret, t) ==
  token.hmac = hmacSha256(secret, tokenMessage(path, token.timestamp))

verifyAuthToken(token, path, secret, t) ==
  IF t - token.timestamp > TOKEN_EXPIRY THEN FALSE
  ELSE token.hmac = hmacSha256(secret, tokenMessage(path, token.timestamp))

\* a cookie value: [kind |-> "undefined"], the empty string [kind |-> "empty"],
\* or the base64 of the JSON of data, a set of [path, token] entries
NoCookie == [kind |-> "undefined", data |-> {}]

EmptyCookie == [kind |-> "empty", data |-> {}]

\* characters above U+00FF, which btoa does not take: U+65E5 stands for one
NonLatin1 == {"U+65E5"}

\* btoa(JSON.stringify(data)) throws InvalidCharacterError: JSON.stringify
\* leaves the characters of a path as they are
btoaThrows(data) == \E e \in data : \E i \in 1..Len(e.path) : e.path[i] \in NonLatin1

\* btoa(JSON.stringify(data)), when it returns
encodeCookie(data) == [kind |-> "b64", data |-> data]

\* decodeCookie(cookieValue) of a value the server wrote
decodeCookie(cookieValue) == cookieValue.data

getAuthedPaths(cookieValue, secret, t) ==
  IF cookieValue.kind \in {"undefined", "empty"} THEN {}
  ELSE {e.path : e \in {x \in decodeCookie(cookieValue) :
                          verifyAuthToken(x.token, x.path, secret, t)}}

\* addAuthedPath throws what btoa throws
addAuthedPathThrows(cookieValue, path, secret, t) ==
  LET data == IF cookieValue.kind \in {"undefined", "empty"} THEN {}
              ELSE decodeCookie(cookieValue)
  IN  btoaThrows({e \in data : e.path # path}
                   \cup {[path |-> path, token |-> createAuthToken(path, secret, t)]})

\* addAuthedPath, when it returns
addAuthedPath(cookieValue, path, secret, t) ==
  LET data == IF cookieValue.kind \in {"undefined", "empty"} THEN {}
              ELSE decodeCookie(cookieValue)
  IN  encodeCookie({e \in data : e.path # path}
                     \cup {[path |-> path, token |-> createAuthToken(path, secret, t)]})

(* ------------------------------ handlers ------------------------------ *)

\* the passwords a config.toml of a modelled tree may set: none, "" or "x"
TreePasswords == {None, Some(<<>>), Some(<<"x">>)}

\* the value of cache (theme-engine.ts) after a getState() that ran alone:
\* loadThemes stores the registry it returns
themesCache(dev, cachedState, themes) ==
  IF dev \/ cachedState = None THEN Some(loadThemes) ELSE themes

\* the invocations of getState that may overlap
Requests == 1..MaxRequests

\* an invocation of getState: where it is suspended, its local themes and scan,
\* and the AppState it returned
IdleRequest == [pc |-> "idle", themes |-> None, scan |-> None, ret |-> None]

NoneInFlight == [r \in Requests |-> IdleRequest]

\* getState(): the AppState the request works with, which is also what it
\* leaves in cached
getState(fsys, dev, cachedState) ==
  IF dev \/ cachedState = None
  THEN Some([scan |-> scanContent(fsys, loadThemes), themes |-> loadThemes])
  ELSE cachedState

\* a response: what was sent, with the request it answers.  section is the
\* dirPath of the section a page or a login prompt was rendered for, file the
\* path of the file served
Response(method, urlPath, status, kind, section, file) ==
  [method |-> method, path |-> urlPath, status |-> status, kind |-> kind,
   section |-> section, file |-> file]

\* no response is on its way to the client
NoResponse == [method |-> "none"]

DotToml == <<".", "t", "o", "m", "l">>

handleGet(state, files, urlPath, cookieValue, t) ==
  LET scan == state.scan
      authedPaths == getAuthedPaths(cookieValue, AUTH_SECRET, t)
      section == sectionsGet(scan, urlPath)
      filePath == join(CONTENT_DIR, urlPath)
      owningSection == findOwningSection(scan, urlPath)
  IN  IF section # None
      THEN IF ~isAuthorized(scan, The(section), authedPaths)
           THEN Response("GET", urlPath, 200, "login",
                         Some(findLockingSection(scan, The(section), authedPaths).dirPath), None)
           ELSE Response("GET", urlPath, 200, "page", Some(The(section).dirPath), None)
      ELSE IF endsWith(urlPath, DotToml)
      THEN Response("GET", urlPath, 404, "404", None, None)
      ELSE IF ~startsWith(resolve(filePath), CONTENT_DIR)
      THEN Response("GET", urlPath, 404, "404", None, None)
      ELSE IF fileExists(files, filePath)
      THEN IF owningSection # None /\ ~isAuthorized(scan, The(owningSection), authedPaths)
           THEN Response("GET", urlPath, 401, "unauthorized", None, None)
           ELSE Response("GET", urlPath, 200, "file", None, Some(filePath))
      ELSE Response("GET", urlPath, 404, "404", None, None)

\* handlePost that drops the auth cookie when the password is wrong
handlePost_failureClears(state, urlPath, body, cookieValue, t) ==
  LET scan == state.scan
      section == sectionsGet(scan, urlPath)
  IN  IF section = None
      THEN [resp |-> Response("POST", urlPath, 404, "404", None, None), cookie |-> cookieValue]
      ELSE IF body.action = Some("logout")
      THEN [resp |-> Response("POST", urlPath, 302, "redirect", None, None),
            cookie |-> EmptyCookie]
      ELSE IF ~hasPassword(The(section).config)
      THEN [resp |-> Response("POST", urlPath, 302, "redirect", None, None),
            cookie |-> cookieValue]
      ELSE IF body.password # None /\ The(body.password) # <<>>
              /\ body.password = The(section).config.password
      THEN IF addAuthedPathThrows(cookieValue, urlPath, AUTH_SECRET, t)
           THEN [resp |-> Response("POST", urlPath, 500, "error", None, None),
                 cookie |-> cookieValue]
           ELSE [resp |-> Response("POST", urlPath, 302, "redirect", None, None),
                 cookie |-> addAuthedPath(cookieValue, urlPath, AUTH_SECRET, t)]
      ELSE [resp |-> Response("POST", urlPath, 401, "login", Some(The(section).dirPath), None),
            cookie |-> EmptyCookie]

\* handlePost whose logout leaves the auth cookie alone
handlePost_logoutKeeps(state, urlPath, body, cookieValue, t) ==
  LET scan == state.scan
      section == sectionsGet(scan, urlPath)
  IN  IF section = None
      THEN [resp |-> Response("POST", urlPath, 404, "404", None, None), cookie |-> cookieValue]
      ELSE IF body.action = Some("logout")
      THEN [resp |-> Response("POST", urlPath, 302, "redirect", None, None),
            cookie |-> cookieValue]
      ELSE IF ~hasPassword(The(section).config)
      THEN [resp |-> Response("POST", urlPath, 302, "redirect", None, None),
            cookie |-> cookieValue]
      ELSE IF body.password # None /\ The(body.password) # <<>>
              /\ body.password = The(section).config.password
      THEN IF addAuthedPathThrows(cookieValue, urlPath, AUTH_SECRET, t)
           THEN [resp |-> Response("POST", urlPath, 500, "error", None, None),
                 cookie |-> cookieValue]
           ELSE [resp |-> Response("POST", urlPath, 302, "redirect", None, None),
                 cookie |-> addAuthedPath(cookieValue, urlPath, AUTH_SECRET, t)]
      ELSE [resp |-> Response("POST", urlPath, 401, "login", Some(The(section).dirPath), None),
            cookie |-> cookieValue]

\* handlePost gives the response and the new value of the auth cookie; body is
\* [action, password], both optional.  An exception that handlePost lets
\* through is answered with status 500 and sets no cookie
handlePost(state, urlPath, body, cookieValue, t) ==
  LET scan == state.scan
      section == sectionsGet(scan, urlPath)
  IN  IF section = None
      THEN [resp |-> Response("POST", urlPath, 404, "404", None, None), cookie |-> cookieValue]
      ELSE IF body.action = Some("logout")
      THEN [resp |-> Response("POST", urlPath, 302, "redirect", None, None),
            cookie |-> EmptyCookie]
      ELSE IF ~hasPassword(The(section).config)
      THEN [resp |-> Response("POST", urlPath, 302, "redirect", None, None),
            cookie |-> cookieValue]
      ELSE IF body.password # None /\ The(body.password) # <<>>
              /\ body.password = The(section).config.password
      THEN IF addAuthedPathThrows(cookieValue, urlPath, AUTH_SECRET, t)
           THEN [resp |-> Response("POST", urlPath, 500, "error", None, None),
                 cookie |-> cookieValue]
           ELSE [resp |-> Response("POST", urlPath, 302, "redirect", None, None),
                 cookie |-> addAuthedPath(cookieValue, urlPath, AUTH_SECRET, t)]
      ELSE [resp |-> Response("POST", urlPath, 401, "login", Some(The(section).dirPath), None),
            cookie |-> cookieValue]

(* ------------------------------- inputs ------------------------------- *)

PwX == <<"x">>

PwY == <<"y">>

\* the passwords a config.toml of a tree of Spec may set: none, or "x"
SpecPasswords == {None, Some(PwX)}

\* the form bodies a POST may carry
Bodies ==
  {[action |-> None, password |-> pw] : pw \in {None, Some(<<>>), Some(PwX), Some(PwY)}}
    \cup {[action |-> Some("logout"), password |-> pw] : pw \in {None, Some(PwX)}}

\* a directory as URL segments: its names as on disk, and its names with the
\* numeric prefixes stripped
segVariants(dir) == {dir, [i \in 1..Len(dir) |-> stripNumericPrefix(dir[i])]}

\* "/" + the segments joined
urlOf(segs) == <<"/">> \o joinSlash(segs)

\* request paths that name a directory of the tree, by disk name or by URL
dirPaths(fsys) == {urlOf(v) : v \in UNION {segVariants(d) : d \in DOMAIN fsys}}

DotDot == <<".", ".">>

\* the request paths of a tree: its directories, the asset and the config file
\* in each, the config file with "/." after it, the same asset reached through
\* "/z/..", a miss, and paths that climb out of the content root
RequestPaths(fsys) ==
  LET segs == UNION {segVariants(d) : d \in DOMAIN fsys}
  IN  {urlOf(v) : v \in segs}
        \cup {urlOf(Append(v, n)) : v \in segs, n \in {AssetName, ConfigName}}
        \cup {urlOf(v \o <<ConfigName, <<".">>>>) : v \in segs}
        \cup {urlOf(<<<<"z">>, DotDot>> \o Append(d, AssetName)) : d \in DOMAIN fsys}
        \cup {urlOf(<<<<"z">>>>),
              urlOf(<<DotDot, <<"c", "x">>, AssetName>>),
              urlOf(<<DotDot, AssetName>>),
              urlOf(<<DotDot, <<"c">>, AssetName>>)}

\* the paths a form is posted to: the directories of the tree, and a miss
PostPaths(fsys) == dirPaths(fsys) \cup {urlOf(<<<<"z">>>>)}

\* the content trees of Spec: a root without a password holds no config.toml
SpecTrees == {t \in Trees(SpecPasswords, MaxDirs) : t[<<>>].config # Some(EmptyConfig)}

\* no function call is recorded
NoCall == [fn |-> "none"]

(* --------------------------- specification ---------------------------- *)

Init ==
  /\ fs \in SpecTrees
  /\ isDev = TRUE
  /\ cached = None
  /\ cache = None
  /\ inflight = NoneInFlight
  /\ cookie = NoCookie
  /\ now = 0
  /\ resp = NoResponse
  /\ call = NoCall

\* GET urlPath with the client's cookie
Get(urlPath) ==
  /\ resp = NoResponse
  /\ cached' = getState(fs, isDev, cached)
  /\ resp' = handleGet(The(cached'), regularFiles(fs), urlPath, cookie, now)
  /\ cache' = themesCache(isDev, cached, cache)
  /\ UNCHANGED <<fs, isDev, inflight, cookie, now, call>>

\* POST urlPath with a form body; the client stores the cookie the server sets
Post(urlPath, body) ==
  /\ resp = NoResponse
  /\ cached' = getState(fs, isDev, cached)
  /\ LET r == handlePost(The(cached'), urlPath, body, cookie, now)
     IN  /\ resp' = r.resp @@ [body |-> body]
         /\ cookie' = r.cookie
  /\ cache' = themesCache(isDev, cached, cache)
  /\ UNCHANGED <<fs, isDev, inflight, now, call>>

\* the client has the response and may send its next request
Deliver ==
  /\ resp # NoResponse
  /\ resp' = NoResponse
  /\ UNCHANGED <<fs, isDev, cached, cache, inflight, cookie, now, call>>

Next ==
  \/ \E urlPath \in RequestPaths(fs) : Get(urlPath)
  \/ \E urlPath \in PostPaths(fs), body \in Bodies : Post(urlPath, body)
  \/ Deliver

Spec == Init /\ [][Next]_vars

(* ------------- specification of the scan and the gate ----------------- *)

\* the scan result the server holds
theScan == The(cached).scan

\* the content tree with inherit = false written into the configs of the
\* directories of F, and nothing else changed
withInheritFalse(fsys, F) ==
  [d \in DOMAIN fsys |->
     IF d \in F THEN [config |-> Some([The(fsys[d].config) EXCEPT !.inherit = Some(FALSE)])]
     ELSE fsys[d]]

\* the content tree with a root config.toml that sets color = "red"
withRootColor(fsys) ==
  [d \in DOMAIN fsys |->
     IF d = <<>> THEN [config |-> Some([configOf(fsys, <<>>) EXCEPT !.color = Some("red")])]
     ELSE fsys[d]]

InitScan ==
  /\ fs \in Trees(TreePasswords, MaxDirs)
  /\ isDev = TRUE
  /\ cached = None
  /\ cache = None
  /\ inflight = NoneInFlight
  /\ cookie = NoCookie
  /\ now = 0
  /\ resp = NoResponse
  /\ call = NoCall

\* the first getState(): the content is scanned
GetState ==
  /\ cached = None
  /\ cached' = getState(fs, isDev, cached)
  /\ cache' = themesCache(isDev, cached, cache)
  /\ UNCHANGED <<fs, isDev, inflight, cookie, now, resp, call>>

\* isAuthorized(section, authedPaths) on a section of the scan
CallIsAuthorized(d, S) ==
  /\ cached # None /\ call = NoCall
  /\ d \in DOMAIN theScan.arena
  /\ call' = [fn |-> "isAuthorized", section |-> d, authedPaths |-> S,
              result |-> isAuthorized(theScan, theScan.arena[d], S)]
  /\ UNCHANGED <<fs, isDev, cached, cache, inflight, cookie, now, resp>>

\* findLockingSection(section, authedPaths) on a section of the scan
CallFindLockingSection(d, S) ==
  /\ cached # None /\ call = NoCall
  /\ d \in DOMAIN theScan.arena
  /\ call' = [fn |-> "findLockingSection", section |-> d, authedPaths |-> S,
              result |-> findLockingSection(theScan, theScan.arena[d], S).dirPath]
  /\ UNCHANGED <<fs, isDev, cached, cache, inflight, cookie, now, resp>>

\* scanContent on two trees that differ only in inherit: the tree with a red
\* root, and the same with inherit = false in the directories of F
CallScanPair(F) ==
  /\ cached # None /\ call = NoCall
  /\ call' = [fn |-> "scanContent", flipped |-> F,
              base |-> scanContent(withRootColor(fs), loadThemes),
              variant |-> scanContent(withInheritFalse(withRootColor(fs), F), loadThemes)]
  /\ UNCHANGED <<fs, isDev, cached, cache, inflight, cookie, now, resp>>

\* the call has returned
Return ==
  /\ call # NoCall
  /\ call' = NoCall
  /\ UNCHANGED <<fs, isDev, cached, cache, inflight, cookie, now, resp>>

\* the URL paths of the scanned sections: what an authorized set can hold
sectionPaths == IF cached = None THEN {} ELSE DOMAIN theScan.sections

\* the directories of the tree that hold a config.toml
configDirs(fsys) == {d \in DOMAIN fsys : fsys[d].config # None} \cup {<<>>}

NextScan ==
  \/ GetState
  \/ \E d \in DOMAIN fs, S \in SUBSET sectionPaths : CallIsAuthorized(d, S)
  \/ \E d \in DOMAIN fs, S \in SUBSET sectionPaths : CallFindLockingSection(d, S)
  \/ \E F \in SUBSET configDirs(fs) : CallScanPair(F)
  \/ Return

SpecScan == InitScan /\ [][NextScan]_vars

(* ------------ specification of a scan that meets failures ------------- *)

\* what a directory of a tree with failures may hold: no config.toml, one that
\* sets nothing, or a malformed one; and the directory may be unlistable
FaultChoices ==
  LET configs == {None, Some(EmptyConfig), Some(Malformed)}
  IN  {[config |-> c] : c \in configs} \cup {[config |-> c, unreadable |-> TRUE] : c \in configs}

FaultTrees == UNION {[D -> FaultChoices] : D \in Shapes(MaxDirs)}

InitFault ==
  /\ fs \in FaultTrees
  /\ isDev = TRUE
  /\ cached = None
  /\ cache = None
  /\ inflight = NoneInFlight
  /\ cookie = NoCookie
  /\ now = 0
  /\ resp = NoResponse
  /\ call = NoCall

\* scanContent(CONTENT_DIR, getDefaults) on the tree
CallScanContent ==
  /\ call = NoCall
  /\ call' = [fn |-> "scanContent", result |-> scanContent(fs, loadThemes)]
  /\ UNCHANGED <<fs, isDev, cached, cache, inflight, cookie, now, resp>>

NextFault ==
  \/ CallScanContent
  \/ Return

SpecFault == InitFault /\ [][NextFault]_vars

(* ----------------- specification of style resolution ------------------ *)

\* a themes directory with the default theme and one whose default color names
\* no palette
OddThemes ==
  [name \in {"default", "odd"} |->
     IF name = "default" THEN loadThemes["default"]
     ELSE [font |-> "Odd", color |-> "weird", dark |-> "false",
           background_color |-> "#ffffff",
           background_color_dark |-> None, background_color_light |-> None]]

\* the registries loadThemes may return: the two above, and none at all when
\* the themes directory cannot be read
ThemeRegistries == {loadThemes, OddThemes, <<>>}

\* the configs of the parent section
ParentConfigs ==
  {[EmptyConfig EXCEPT !.theme = th, !.color = co, !.accent_color = ac, !.locale = lo,
                       !.background = bg, !.cdn = cd] :
     th \in {None, Some("mono"), Some("odd")},
     co \in {None, Some("red"), Some("weird")},
     ac \in {None, Some("#abcdef")},
     lo \in {None, Some("fr")},
     bg \in {None, Some("bg.png")},
     cd \in {None, Some([js |-> "jsdelivr"])}}

\* the configs of the child section
ChildConfigs ==
  {[EmptyConfig EXCEPT !.theme = th, !.inherit = inh, !.locale = lo, !.color = co] :
     th \in {None, Some(""), Some("default"), Some("mono"), Some("odd")},
     inh \in {None, Some(TRUE), Some(FALSE)},
     lo \in {None, Some("de")},
     co \in {None, Some("blue")}}

InitStyle ==
  /\ fs = [d \in {<<>>} |-> [config |-> None]]
  /\ isDev = TRUE
  /\ cached = None
  /\ cache = None
  /\ inflight = NoneInFlight
  /\ cookie = NoCookie
  /\ now = 0
  /\ resp = NoResponse
  /\ call = NoCall

\* resolveStyle(config, parent, getDefaults) for a child of a section that is
\* itself resolved from parentConfig below no parent
CallResolveStyle(themes, parentConfig, config) ==
  /\ call = NoCall
  /\ LET parent == [config |-> parentConfig, style |-> resolveStyle(parentConfig, None, themes)]
     IN  call' = [fn |-> "resolveStyle", themes |-> themes, config |-> config,
                  parent |-> parent,
                  result |-> resolveStyle(config, Some(parent), themes)]
  /\ UNCHANGED <<fs, isDev, cached, cache, inflight, cookie, now, resp>>

NextStyle ==
  \/ /\ call = NoCall
     /\ \E themes \in ThemeRegistries, parentConfig \in ParentConfigs, config \in ChildConfigs :
          CallResolveStyle(themes, parentConfig, config)
  \/ Return

SpecStyle == InitStyle /\ [][NextStyle]_vars

(* --------------- specification of concurrent getState ----------------- *)

\* getDefaults that reads the cache of the theme engine
getDefaults_moduleCache(localThemes, moduleCache) == moduleCache

\* the registry the getDefaults closure of getState reads: the local themes of
\* the invocation, not the cache of the theme engine
getDefaults(localThemes, moduleCache) == localThemes

\* the invocations start idle, in either mode; nothing is cached yet
InitConc ==
  /\ fs = [d \in {<<>>} |-> [config |-> None]]
  /\ isDev \in BOOLEAN
  /\ cached = None
  /\ cache = None
  /\ inflight = NoneInFlight
  /\ cookie = NoCookie
  /\ now = 0
  /\ resp = NoResponse
  /\ call = NoCall

\* a request calls getState(): the test of isDev and cached, and inside
\* loadThemes the test of cache, up to the first await
Enter(r) ==
  /\ inflight[r].pc = "idle"
  /\ inflight' =
       [inflight EXCEPT ![r] =
          IF ~(isDev \/ cached = None)
          THEN [@ EXCEPT !.pc = "done", !.ret = cached]
          ELSE IF cache # None /\ ~isDev
          THEN [@ EXCEPT !.pc = "scanContent", !.themes = cache]
          ELSE [@ EXCEPT !.pc = "loadThemes"]]
  /\ UNCHANGED <<fs, isDev, cached, cache, cookie, now, resp, call>>

\* loadThemes has read the themes directory: it stores its new map in cache
\* and returns it
ThemesLoaded(r) ==
  /\ inflight[r].pc = "loadThemes"
  /\ cache' = Some([loadedBy |-> r])
  /\ inflight' = [inflight EXCEPT ![r] = [@ EXCEPT !.pc = "scanContent", !.themes = cache']]
  /\ UNCHANGED <<fs, isDev, cached, cookie, now, resp, call>>

\* scanContent has resolved: the scan was made with the registry getDefaults reads
Scanned(r) ==
  /\ inflight[r].pc = "scanContent"
  /\ inflight' =
       [inflight EXCEPT ![r] =
          [@ EXCEPT !.pc = "loadCatalogs",
                    !.scan = Some([scannedBy |-> r,
                                   themes |-> The(getDefaults(inflight[r].themes, cache))])]]
  /\ UNCHANGED <<fs, isDev, cached, cache, cookie, now, resp, call>>

\* loadCatalogs has resolved: the new AppState is stored in cached, and cached
\* is returned
CatalogsLoaded(r) ==
  /\ inflight[r].pc = "loadCatalogs"
  /\ cached' = Some([builtBy |-> r, scan |-> The(inflight[r].scan),
                     themes |-> The(inflight[r].themes)])
  /\ inflight' = [inflight EXCEPT ![r] = [@ EXCEPT !.pc = "done", !.ret = cached']]
  /\ UNCHANGED <<fs, isDev, cache, cookie, now, resp, call>>

NextConc ==
  \E r \in Requests :
    \/ Enter(r)
    \/ ThemesLoaded(r)
    \/ Scanned(r)
    \/ CatalogsLoaded(r)

SpecConc == InitConc /\ [][NextConc]_vars

(* ------------------- specification of translation --------------------- *)

DEFAULT_LOCALE == "en"

\* CONTEXT_SEP, "\x04": one character between msgctxt and msgid in a key
CONTEXT_SEP == "EOT"

\* t that falls back to msgid only for a missing key (?? in place of ||)
t_missingOnly(catalogs, locale, msgid, msgctxt) ==
  IF locale = DEFAULT_LOCALE THEN msgid
  ELSE IF locale \notin DOMAIN catalogs THEN msgid
  ELSE LET catalog == catalogs[locale]
           key == IF msgctxt # None /\ The(msgctxt) # <<>>
                  THEN The(msgctxt) \o <<CONTEXT_SEP>> \o msgid
                  ELSE msgid
       IN  IF key \in DOMAIN catalog THEN catalog[key] ELSE msgid

\* t(catalogs, locale, msgid, msgctxt): msgid, msgctxt and the catalog's keys
\* and texts are sequences of characters, msgctxt is optional
t(catalogs, locale, msgid, msgctxt) ==
  IF locale = DEFAULT_LOCALE THEN msgid
  ELSE IF locale \notin DOMAIN catalogs THEN msgid
  ELSE LET catalog == catalogs[locale]
           key == IF msgctxt # None /\ The(msgctxt) # <<>>
                  THEN The(msgctxt) \o <<CONTEXT_SEP>> \o msgid
                  ELSE msgid
       IN  IF key \in DOMAIN catalog /\ catalog[key] # <<>> THEN catalog[key] ELSE msgid

\* the message ids and contexts asked for
MsgIds == {<<>>, <<"h">>}

MsgContexts == {None, Some(<<>>), Some(<<"m">>)}

\* a catalog maps some of these keys to a text, maybe the empty one
CatalogKeys == {<<>>, <<"h">>, <<"m", CONTEXT_SEP, "h">>}

CatalogTexts == {<<>>, <<"H">>}

CatalogSet == UNION {[K -> CatalogTexts] : K \in SUBSET CatalogKeys}

\* what loadCatalogs may return: catalogs for some of the locales en and fr
CatalogsSet == UNION {[L -> CatalogSet] : L \in SUBSET {"en", "fr"}}

InitI18n ==
  /\ fs = [d \in {<<>>} |-> [config |-> None]]
  /\ isDev = TRUE
  /\ cached = None
  /\ cache = None
  /\ inflight = NoneInFlight
  /\ cookie = NoCookie
  /\ now = 0
  /\ resp = NoResponse
  /\ call = NoCall

CallT(catalogs, locale, msgid, msgctxt) ==
  /\ call' = [fn |-> "t", catalogs |-> catalogs, locale |-> locale, msgid |-> msgid,
              msgctxt |-> msgctxt, result |-> t(catalogs, locale, msgid, msgctxt)]
  /\ UNCHANGED <<fs, isDev, cached, cache, inflight, cookie, now, resp>>

NextI18n ==
  \/ /\ call = NoCall
     /\ \E catalogs \in CatalogsSet, locale \in {"en", "fr", "de"},
           msgid \in MsgIds, msgctxt \in MsgContexts :
          CallT(catalogs, locale, msgid, msgctxt)
  \/ Return

SpecI18n == InitI18n /\ [][NextI18n]_vars

(* -------------------- specification of rendering ---------------------- *)

\* a value of a TOML table of theme.toml: a string or a number
Str(s) == [type |-> "string", value |-> s]

Num(n) == [type |-> "number", value |-> n]

\* what a render function leaves its caller with when a TypeError is thrown
RenderError == [error |-> "TypeError"]

\* const dv = darkVars[key] || "": a missing key, "" and 0 give ""
orEmpty(table, key) ==
  IF key \notin DOMAIN table THEN Str(<<>>)
  ELSE IF table[key] \in {Str(<<>>), Num(0)} THEN Str(<<>>)
  ELSE table[key]

\* the dark and light tables getVars merges when dark === "auto"
darkVarsOf(tvars) == IF tvars.dark # None THEN The(tvars.dark) ELSE <<>>

lightVarsOf(tvars) == IF tvars.light # None THEN The(tvars.light) ELSE darkVarsOf(tvars)

\* getVars throws a TypeError: dark is "auto", the two values of a key differ
\* and dv is not a string, so that dv.split is not a function
getVarsThrows(theme, dark) ==
  /\ theme.config.vars # None
  /\ dark = "auto"
  /\ LET tvars == The(theme.config.vars)
     IN  \E key \in DOMAIN darkVarsOf(tvars) \cup DOMAIN lightVarsOf(tvars) :
           /\ orEmpty(darkVarsOf(tvars), key) # orEmpty(lightVarsOf(tvars), key)
           /\ orEmpty(darkVarsOf(tvars), key).type # "string"

\* getVars(theme, dark) when it returns: the variables handed to the
\* templates, a function from keys to values.  A merged value is kept as its
\* two parts, the light classes and the dark ones
getVars(theme, dark) ==
  IF theme.config.vars = None THEN <<>>
  ELSE LET tvars == The(theme.config.vars)
       IN  IF dark = "auto"
           THEN [key \in DOMAIN darkVarsOf(tvars) \cup DOMAIN lightVarsOf(tvars) |->
                   LET dv == orEmpty(darkVarsOf(tvars), key)
                       lv == orEmpty(lightVarsOf(tvars), key)
                   IN  IF dv = lv THEN dv
                       ELSE [type |-> "string", light |-> lv, dark |-> dv]]
           ELSE IF dark = "true" THEN darkVarsOf(tvars)
           ELSE IF tvars.light # None THEN The(tvars.light)
           ELSE darkVarsOf(tvars)

\* themes.get(section.style.theme) || themes.get("default")
themeFor(section, themes) ==
  IF section.style.theme \in DOMAIN themes THEN Some(themes[section.style.theme])
  ELSE IF "default" \in DOMAIN themes THEN Some(themes["default"])
  ELSE None

\* fallback404(): the minimal document, built without a theme
fallback404 == [doc |-> "fallback404"]

\* renderPage(section, themes, catalogs): the document, as the template that
\* made it, the theme it belongs to and the variables it was given
renderPage(section, themes) ==
  LET theme == themeFor(section, themes)
  IN  IF theme = None THEN fallback404
      ELSE IF getVarsThrows(The(theme), section.style.dark) THEN RenderError
      ELSE [doc |-> "page", theme |-> The(theme),
            vars |-> getVars(The(theme), section.style.dark)]

\* renderLogin(section, themes, catalogs, error)
renderLogin(section, themes) ==
  LET theme == themeFor(section, themes)
  IN  IF theme = None THEN fallback404
      ELSE IF getVarsThrows(The(theme), section.style.dark) THEN RenderError
      ELSE [doc |-> "login", theme |-> The(theme),
            vars |-> getVars(The(theme), section.style.dark)]

\* the tables [vars.dark] and [vars.light] of a theme.toml: absent, or one
\* key with a string or a number
VarTables == {None, Some([card |-> Str(<<"x">>)]), Some([card |-> Num(1)])}

\* config.vars as loadTheme keeps it: undefined unless one of the tables is there
ThemeVars ==
  {None} \cup ({Some([dark |-> d, light |-> l]) : d \in VarTables, l \in VarTables}
                 \ {Some([dark |-> None, light |-> None])})

\* the registries loadThemes may return: some of the themes "default" and
\* "mono", each compiled from its directory
CompiledThemes(name) == {[config |-> [name |-> name, vars |-> v]] : v \in ThemeVars}

RenderRegistries ==
  UNION {{f \in [N -> UNION {CompiledThemes(n) : n \in N}] : \A n \in N : f[n].config.name = n} :
           N \in SUBSET {"default", "mono"}}

\* the sections rendered: style.theme is "default", "mono" or a theme that
\* no registry holds
RenderSections ==
  {[style |-> [theme |-> th, dark |-> d]] :
     th \in {"default", "mono", "ghost"}, d \in {"auto", "true", "false"}}

InitRender ==
  /\ fs = [d \in {<<>>} |-> [config |-> None]]
  /\ isDev = TRUE
  /\ cached = None
  /\ cache = None
  /\ inflight = NoneInFlight
  /\ cookie = NoCookie
  /\ now = 0
  /\ resp = NoResponse
  /\ call = NoCall

CallRenderPage(section, themes) ==
  /\ call' = [fn |-> "renderPage", section |-> section, themes |-> themes,
              result |-> renderPage(section, themes)]
  /\ UNCHANGED <<fs, isDev, cached, cache, inflight, cookie, now, resp>>

CallRenderLogin(section, themes) ==
  /\ call' = [fn |-> "renderLogin", section |-> section, themes |-> themes,
              result |-> renderLogin(section, themes)]
  /\ UNCHANGED <<fs, isDev, cached, cache, inflight, cookie, now, resp>>

NextRender ==
  \/ /\ call = NoCall
     /\ \E section \in RenderSections, themes \in RenderRegistries :
          CallRenderPage(section, themes)
  \/ /\ call = NoCall
     /\ \E section \in RenderSections, themes \in RenderRegistries :
          CallRenderLogin(section, themes)
  \/ Return

SpecRender == InitRender /\ [][NextRender]_vars

(* ------------------ specification of the auth tokens ------------------ *)

\* the paths tokens are made for: "/a" and "/a:0", a directory named "a:0"
TokenPaths == {<<"/", "a">>, <<"/", "a", ":", "0">>}

\* a key that is not the server's
GUESSED_SECRET == "guessed-secret"

\* the cookie value with the entry of path replaced by token
withEntry(cookieValue, path, token) ==
  encodeCookie({e \in cookieValue.data : e.path # path}
                 \cup {[path |-> path, token |-> token]})

InitToken ==
  /\ fs = [d \in {<<>>} |-> [config |-> None]]
  /\ isDev = TRUE
  /\ cached = None
  /\ cache = None
  /\ inflight = NoneInFlight
  /\ cookie = NoCookie
  /\ now = 0
  /\ resp = NoResponse
  /\ call = NoCall

\* the server sets the cookie addAuthedPath returns, after a correct password for path
Issue(path) ==
  /\ call = NoCall
  /\ cookie' = addAuthedPath(cookie, path, AUTH_SECRET, now)
  /\ UNCHANGED <<fs, isDev, cached, cache, inflight, now, resp, call>>

\* the client copies the token it holds for path p into the entry of path q
Rekey(p, q) ==
  /\ call = NoCall
  /\ p # q
  /\ \E e \in cookie.data :
       /\ e.path = p
       /\ cookie' = withEntry(cookie, q, e.token)
  /\ UNCHANGED <<fs, isDev, cached, cache, inflight, now, resp, call>>

\* the client writes the current time into the token it holds for path
Redate(path) ==
  /\ call = NoCall
  /\ \E e \in cookie.data :
       /\ e.path = path
       /\ e.token.timestamp # now
       /\ cookie' = withEntry(cookie, path, [e.token EXCEPT !.timestamp = now])
  /\ UNCHANGED <<fs, isDev, cached, cache, inflight, now, resp, call>>

\* the client makes a token for path with a key of its own
Forge(path) ==
  /\ call = NoCall
  /\ cookie' = withEntry(cookie, path, createAuthToken(path, GUESSED_SECRET, now))
  /\ UNCHANGED <<fs, isDev, cached, cache, inflight, now, resp, call>>

\* Date.now() moves on by d milliseconds
Tick(d) ==
  /\ call = NoCall
  /\ (now + d) \div TOKEN_EXPIRY <= MaxDays
  /\ (now + d) % TOKEN_EXPIRY <= MaxMillis
  /\ now' = now + d
  /\ UNCHANGED <<fs, isDev, cached, cache, inflight, cookie, resp, call>>

\* getAuthedPaths(cookieValue, AUTH_SECRET) of a request that carries the cookie
CallGetAuthedPaths ==
  /\ call = NoCall
  /\ call' = [fn |-> "getAuthedPaths", cookie |-> cookie, now |-> now,
              result |-> getAuthedPaths(cookie, AUTH_SECRET, now)]
  /\ UNCHANGED <<fs, isDev, cached, cache, inflight, cookie, now, resp>>

NextToken ==
  \/ \E path \in TokenPaths : Issue(path)
  \/ \E p \in TokenPaths, q \in TokenPaths : Rekey(p, q)
  \/ \E path \in TokenPaths : Redate(path)
  \/ \E path \in TokenPaths : Forge(path)
  \/ \E d \in {1, TOKEN_EXPIRY} : Tick(d)
  \/ CallGetAuthedPaths
  \/ Return

SpecToken == InitToken /\ [][NextToken]_vars

(* ------------------- specification of the scan steps ------------------ *)

\* the directory names of the trees that are scanned step by step: "a", "1-a",
\* "1-", a name that is nothing but a numeric prefix, and the dot name ".a"
WalkNames == {<<"a">>, <<"1", "-", "a">>, <<"1", "-">>, <<".", "a">>}

\* the directory sets of the trees with at most k directories below the root,
\* named from WalkNames
RECURSIVE WalkShapes(_)
WalkShapes(k) ==
  IF k = 0 THEN {{<<>>}}
  ELSE LET smaller == WalkShapes(k - 1)
       IN  smaller \cup UNION {{D \cup {Append(d, n)} : d \in D, n \in WalkNames} : D \in smaller}

WalkTrees == UNION {[D -> DirChoices({None})] : D \in WalkShapes(MaxDirs)}

\* sections.set(urlPath, section) on the flat map built so far
sectionsSet(sections, urlPath, dir) ==
  [p \in DOMAIN sections \cup {urlPath} |-> IF p = urlPath THEN dir ELSE sections[p]]

InitWalk ==
  /\ fs \in WalkTrees
  /\ isDev = TRUE
  /\ cached = None
  /\ cache = None
  /\ inflight = NoneInFlight
  /\ cookie = NoCookie
  /\ now = 0
  /\ resp = NoResponse
  /\ call = NoCall

\* scanContent starts: scanDirectory is about to run on the content root.
\* regs are the sections in the order scanDirectory is called for them,
\* started counts the calls that have begun, sections is the flat map
BeginScan ==
  /\ call = NoCall
  /\ call' = [fn |-> "scanDirectory",
              regs |-> scanDirectory(fs, <<>>, <<"/">>, None, loadThemes),
              started |-> 0, sections |-> <<>>]
  /\ UNCHANGED <<fs, isDev, cached, cache, inflight, cookie, now, resp>>

\* the next call of scanDirectory runs up to its readdir: the section is
\* made and stored with sections.set
ScanStep ==
  /\ call.fn = "scanDirectory"
  /\ call.started < Len(call.regs)
  /\ LET section == call.regs[call.started + 1]
     IN  call' = [call EXCEPT !.started = call.started + 1,
                              !.sections = sectionsSet(call.sections, section.path,
                                                       section.dirPath)]
  /\ UNCHANGED <<fs, isDev, cached, cache, inflight, cookie, now, resp>>

\* the outermost scanDirectory has returned and scanContent returns { root, sections }
FinishScan ==
  /\ call.fn = "scanDirectory"
  /\ call.started = Len(call.regs)
  /\ call' = [fn |-> "scanContent", result |-> scanContent(fs, loadThemes)]
  /\ UNCHANGED <<fs, isDev, cached, cache, inflight, cookie, now, resp>>

NextWalk ==
  \/ BeginScan
  \/ ScanStep
  \/ FinishScan
  \/ Return

SpecWalk == InitWalk /\ [][NextWalk]_vars

(* ------------------- specification of the unlocking ------------------- *)

\* the directory names of the trees that are unlocked: "a", and a name of one
\* character above U+00FF
UnlockNames == {<<"a">>, <<"U+65E5">>}

RECURSIVE UnlockShapes(_)
UnlockShapes(k) ==
  IF k = 0 THEN {{<<>>}}
  ELSE LET smaller == UnlockShapes(k - 1)
       IN  smaller \cup UNION {{D \cup {Append(d, n)} : d \in D, n \in UnlockNames} : D \in smaller}

\* every directory holds a config.toml with the password "x"
UnlockTrees ==
  UNION {[D -> {[config |-> Some([EmptyConfig EXCEPT !.password = Some(PwX)])]}] :
           D \in UnlockShapes(MaxDirs)}

\* the form bodies that carry a password: the right one and a wrong one
PasswordBodies == {[action |-> None, password |-> Some(pw)] : pw \in {PwX, PwY}}

InitUnlock ==
  /\ fs \in UnlockTrees
  /\ isDev = TRUE
  /\ cached = None
  /\ cache = None
  /\ inflight = NoneInFlight
  /\ cookie = NoCookie
  /\ now = 0
  /\ resp = NoResponse
  /\ call = NoCall

NextUnlock ==
  \/ \E urlPath \in PostPaths(fs), body \in PasswordBodies : Post(urlPath, body)
  \/ Deliver
  \/ resp = NoResponse /\ Tick(1)

SpecUnlock == InitUnlock /\ [][NextUnlock]_vars

(* ------------------ specification of the unlocking loop ---------------- *)

\* the client's loop for the section at urlPath is running; rounds counts its
\* POSTs and lockers lists the directories of the sections it posted to
Unlocking(urlPath) == [fn |-> "unlock", target |-> urlPath, rounds |-> 0, lockers |-> <<>>]

\* the client starts to unlock the section at urlPath with the cookie it has
BeginUnlock(urlPath) ==
  /\ call = NoCall
  /\ resp = NoResponse
  /\ cached' = getState(fs, isDev, cached)
  /\ sectionsGet(The(cached').scan, urlPath) # None
  /\ call' = Unlocking(urlPath)
  /\ cache' = themesCache(isDev, cached, cache)
  /\ UNCHANGED <<fs, isDev, inflight, cookie, now, resp>>

\* GET of the section that is being unlocked
UnlockGet ==
  /\ call.fn = "unlock"
  /\ resp.method # "GET"
  /\ cached' = getState(fs, isDev, cached)
  /\ resp' = handleGet(The(cached'), regularFiles(fs), call.target, cookie, now)
  /\ cache' = themesCache(isDev, cached, cache)
  /\ UNCHANGED <<fs, isDev, inflight, cookie, now, call>>

\* the GET returned a login prompt: POST the password of the section the
\* prompt is for to that section's path
UnlockPost ==
  /\ call.fn = "unlock"
  /\ resp.method = "GET"
  /\ resp.kind = "login"
  /\ call.rounds < MaxRequests
  /\ cached' = getState(fs, isDev, cached)
  /\ LET locker == The(cached').scan.arena[The(resp.section)]
         body == [action |-> None, password |-> locker.config.password]
         r == handlePost(The(cached'), locker.path, body, cookie, now)
     IN  /\ resp' = r.resp @@ [body |-> body]
         /\ cookie' = r.cookie
  /\ call' = [call EXCEPT !.rounds = @ + 1, !.lockers = Append(@, The(resp.section))]
  /\ cache' = themesCache(isDev, cached, cache)
  /\ UNCHANGED <<fs, isDev, inflight, now>>

NextLoop ==
  \/ call = NoCall /\ \E urlPath \in PostPaths(fs), body \in PasswordBodies : Post(urlPath, body)
  \/ call = NoCall /\ Deliver
  \/ \E urlPath \in PostPaths(fs) : BeginUnlock(urlPath)
  \/ UnlockGet
  \/ UnlockPost

SpecLoop == InitUnlock /\ [][NextLoop]_vars

(* ------------------------------- claims ------------------------------- *)

\* the sections on the chain from the section of directory d up to the root
chain(scan, d) == {scan.arena[SubSeq(d, 1, k)] : k \in 0..Len(d)}

\* the sections on the chain of d that have a password and whose path is not in S
locked(scan, d, S) == {n \in chain(scan, d) : hasPassword(n.config) /\ n.path \notin S}

\* the authorized set of the client's cookie, as a request made now gets it
authedNow == getAuthedPaths(cookie, AUTH_SECRET, now)

\* C1: a GET of a section path returns that section's page only if every
\* password-bearing section on its chain has its own path in the authorized
\* set; otherwise the response is the login prompt.
C1_GetGated ==
  (resp.method = "GET" /\ resp.path \in DOMAIN theScan.sections) =>
    LET d == theScan.sections[resp.path]
    IN  /\ resp.kind \in {"page", "login"}
        /\ resp.kind = "page" => locked(theScan, d, authedNow) = {} /\ resp.section = Some(d)
        /\ locked(theScan, d, authedNow) # {} => resp.kind = "login"

\* a section two password gates deep is asked for with the outer gate cleared
\* and the inner one not: the login prompt comes back
C1_Witness ==
  /\ resp.method = "GET" /\ resp.path \in DOMAIN theScan.sections
  /\ resp.kind = "login"
  /\ authedNow # {}
  /\ Cardinality({n \in chain(theScan, theScan.sections[resp.path]) : hasPassword(n.config)}) >= 2

\* C2: isAuthorized(section, S) is true exactly when every section on the
\* chain of section (section included) that has a password has its path in S.
C2_IsAuthorizedIff ==
  call.fn = "isAuthorized" =>
    call.result = (locked(theScan, call.section, call.authedPaths) = {})

\* the parent's path is in S, the child has its own password and its path is
\* not in S: not authorized
C2_Witness ==
  /\ call.fn = "isAuthorized" /\ Len(call.section) >= 1
  /\ LET sec == theScan.arena[call.section]
         par == theScan.arena[The(sec.parent)]
     IN  /\ hasPassword(sec.config) /\ sec.path \notin call.authedPaths
         /\ hasPassword(par.config) /\ par.path \in call.authedPaths
  /\ call.result = FALSE

C4_AuthorizedMonotonic ==
  (call.fn = "isAuthorized" /\ call.result) =>
    \A S2 \in SUBSET sectionPaths :
      call.authedPaths \subseteq S2 =>
        isAuthorized(theScan, theScan.arena[call.section], S2)

\* a section behind a password is authorized by a set that can still grow
C4_Witness ==
  /\ call.fn = "isAuthorized" /\ call.result
  /\ \E n \in chain(theScan, call.section) : hasPassword(n.config)
  /\ call.authedPaths # sectionPaths

\* P is the only password-bearing section on the chain of s, and s lies below P
onlyLock(scan, P, s) ==
  /\ P \in DOMAIN scan.arena /\ s \in DOMAIN scan.arena
  /\ Len(P) < Len(s) /\ SubSeq(s, 1, Len(P)) = P
  /\ {n.dirPath : n \in {m \in chain(scan, s) : hasPassword(m.config)}} = {P}

\* a form body that carries the password pw and nothing else
passwordBody(pw) == [action |-> None, password |-> pw]

\* C5: where P is the only password-bearing section on the chain of s, a GET
\* of s with an empty authorized set gives the login prompt for P, a POST to P
\* with P's password gives an authorized set that holds P, and a GET of s with
\* P authorized gives the page of s.
C5_UnlockSequence ==
  cached # None =>
    \A P \in DOMAIN theScan.arena, s \in DOMAIN theScan.arena :
      onlyLock(theScan, P, s) =>
        /\ (resp.method = "GET" /\ resp.path = theScan.arena[s].path /\ authedNow = {}) =>
             (resp.kind = "login" /\ resp.section = Some(P))
        /\ (/\ resp.method = "POST" /\ resp.path = theScan.arena[P].path
            /\ resp.body = passwordBody(theScan.arena[P].config.password)) =>
             theScan.arena[P].path \in authedNow
        /\ (/\ resp.method = "GET" /\ resp.path = theScan.arena[s].path
            /\ theScan.arena[P].path \in authedNow) =>
             (resp.kind = "page" /\ resp.section = Some(s))

\* C6: handlePost adds a section's path to the authorized set only when every
\* password-bearing strict ancestor of that section is already in it.
C6_OutermostFirst ==
  [][\A p \in getAuthedPaths(cookie', AUTH_SECRET, now') \ authedNow :
       p \in DOMAIN The(cached').scan.sections =>
         \A n \in chain(The(cached').scan, The(cached').scan.sections[p]) :
           (n.path # p /\ hasPassword(n.config)) => n.path \in authedNow]_vars

\* the section that owns a file of the content tree: the deepest section whose
\* directory the file lies in or below
owningDirs(scan, fsys, file) ==
  {d \in DOMAIN scan.arena :
     \E e \in DOMAIN fsys :
       /\ file = absDir(e) \o <<"/">> \o AssetName
       /\ Len(d) <= Len(e) /\ SubSeq(e, 1, Len(d)) = d
       /\ \A k \in (Len(d) + 1)..Len(e) : SubSeq(e, 1, k) \notin DOMAIN scan.arena}

\* C7: a file in the directory of a protected section, or in a non-section
\* directory below it, is served by no GET whose authorized set does not
\* satisfy isAuthorized for that section.
C7_AssetsGated ==
  (resp.method = "GET" /\ resp.kind = "file") =>
    \A d \in owningDirs(theScan, fs, The(resp.file)) :
      theScan.arena[d].protected => isAuthorized(theScan, theScan.arena[d], authedNow)

\* the path lies within the content root directory
withinContentRoot(p) ==
  resolve(p) = CONTENT_DIR \/ startsWith(resolve(p), CONTENT_DIR \o <<"/">>)

\* C8: a GET of a path that is not a section serves a file only if the file's
\* resolved path lies within the content root; a path that resolves outside
\* gets the not-found response.
C8_NoTraversal ==
  (resp.method = "GET" /\ resp.path \notin DOMAIN theScan.sections) =>
    /\ resp.kind = "file" => withinContentRoot(The(resp.file))
    /\ ~withinContentRoot(join(CONTENT_DIR, resp.path)) => resp.kind = "404"

\* C9: after a scan, protected of a section is (it has a non-empty password or
\* its parent is protected), which is: some section of its chain has a password.
C9_ProtectedDownward ==
  cached # None =>
    \A d \in DOMAIN theScan.arena :
      LET sec == theScan.arena[d]
          parentProtected == sec.parent # None /\ theScan.arena[The(sec.parent)].protected
      IN  /\ sec.protected = (hasPassword(sec.config) \/ parentProtected)
          /\ sec.protected = (\E n \in chain(theScan, d) : hasPassword(n.config))
          /\ parentProtected => sec.protected

\* a section with the password "" below a section without one below a root
\* with a password is protected
C9_Witness ==
  /\ cached # None
  /\ \E d \in DOMAIN theScan.arena :
       /\ Len(d) = 2
       /\ theScan.arena[d].config.password = Some(<<>>)
       /\ ~hasPassword(theScan.arena[SubSeq(d, 1, 1)].config)
       /\ hasPassword(theScan.arena[<<>>].config)
       /\ theScan.arena[d].protected

\* C10: two trees that differ only in inherit give every section the same
\* protected flag, and isAuthorized and findLockingSection the same results for
\* every section and every authorized set.
C10_GateIgnoresInherit ==
  call.fn = "scanContent" =>
    /\ DOMAIN call.base.arena = DOMAIN call.variant.arena
    /\ call.base.sections = call.variant.sections
    /\ \A d \in DOMAIN call.base.arena :
         /\ call.base.arena[d].protected = call.variant.arena[d].protected
         /\ \A S \in SUBSET DOMAIN call.base.sections :
              /\ isAuthorized(call.base, call.base.arena[d], S)
                   = isAuthorized(call.variant, call.variant.arena[d], S)
              /\ findLockingSection(call.base, call.base.arena[d], S).dirPath
                   = findLockingSection(call.variant, call.variant.arena[d], S).dirPath

\* a section with inherit = false and no password of its own, below a section
\* with a password: its style is no longer the parent's, it is still protected
C10_Witness ==
  /\ call.fn = "scanContent"
  /\ \E d \in call.flipped :
       /\ d \in DOMAIN call.variant.arena /\ Len(d) >= 1
       /\ call.variant.arena[d].config.inherit = Some(FALSE)
       /\ call.variant.arena[d].style # call.base.arena[d].style
       /\ ~hasPassword(call.variant.arena[d].config)
       /\ call.variant.arena[d].protected

\* s without one trailing "/"
stripTrailingSlash(s) == IF endsWith(s, <<"/">>) THEN SubSeq(s, 1, Len(s) - 1) ELSE s

RECURSIVE reachable(_, _)
reachable(scan, d) ==
  IF d = scan.root THEN TRUE
  ELSE LET p == SubSeq(d, 1, Len(d) - 1)
       IN  /\ p \in DOMAIN scan.arena
           /\ \E i \in 1..Len(scan.arena[p].children) : scan.arena[p].children[i] = d
           /\ reachable(scan, p)

\* C12: after a scan no two sections have the same path, and every section
\* reachable from the root through the children lists is the value of the flat
\* map under its own path.
C12_PathsUnique ==
  cached # None =>
    /\ \A d1, d2 \in DOMAIN theScan.arena :
         theScan.arena[d1].path = theScan.arena[d2].path => d1 = d2
    /\ \A d \in DOMAIN theScan.arena :
         reachable(theScan, d) =>
           /\ theScan.arena[d].path \in DOMAIN theScan.sections
           /\ theScan.sections[theScan.arena[d].path] = d

\* the directories scanDirectory is called for when nothing fails: those that
\* hold a config.toml, as do all directories above them below the root
sectionDirs(fsys) ==
  {d \in DOMAIN fsys : \A k \in 1..Len(d) : fsys[SubSeq(d, 1, k)].config # None}

\* C13: a malformed config.toml in a section directory, the root or a
\* descendant, makes scanContent fail: no ScanResult is returned.
C13_MalformedAborts ==
  (call.fn = "scanContent" /\ \E d \in sectionDirs(fs) : parseThrows(fs, d)) =>
    call.result = ScanError

\* C14: a directory that cannot be listed does not fail the scan: its section
\* is in the flat map under its path and has no children.
C14_UnreadableKeepsSection ==
  (call.fn = "scanContent" /\ \A d \in DOMAIN fs : ~parseThrows(fs, d)) =>
    /\ call.result # ScanError
    /\ \A d \in sectionDirs(fs) :
         (readdirThrows(fs, d) /\ \A k \in 0..(Len(d) - 1) : ~readdirThrows(fs, SubSeq(d, 1, k))) =>
           /\ d \in DOMAIN call.result.arena
           /\ call.result.arena[d].children = <<>>
           /\ call.result.arena[d].path \in DOMAIN call.result.sections
           /\ call.result.sections[call.result.arena[d].path] = d

\* the config sets nothing but, maybe, inherit and the fields of except
setsOnly(config, except) ==
  \A f \in (DOMAIN EmptyConfig) \ ({"inherit"} \cup except) : config[f] = None

\* C15: resolveStyle for a child with an empty config, inherit true and no
\* theme change returns the parent's ResolvedStyle, field for field.
C15_InheritIdempotent ==
  (/\ call.fn = "resolveStyle"
   /\ setsOnly(call.config, {})
   /\ call.config.inherit # Some(FALSE)) =>
    call.result = call.parent.style

\* C16: a child that sets a theme different from its parent's resolved theme
\* and no other style field gets that theme's default color, dark, font and
\* background colors, no background image, and the 500 shade of the default
\* color as accent colour, "#6366f1" when the color names no palette.
C16_ThemeChangeResets ==
  (/\ call.fn = "resolveStyle"
   /\ setsOnly(call.config, {"theme"})
   /\ call.config.theme # None
   /\ The(call.config.theme) # call.parent.style.theme) =>
    LET defaults == getThemeDefaults(The(call.config.theme), call.themes)
    IN  /\ call.result.color = defaults.color
        /\ call.result.dark = defaults.dark
        /\ call.result.font = defaults.font
        /\ call.result.background_color = defaults.background_color
        /\ call.result.background_color_dark = defaults.background_color_dark
        /\ call.result.background_color_light = defaults.background_color_light
        /\ call.result.background = None
        /\ call.result.accent_color =
             (IF COLOR_500(defaults.color) # None THEN The(COLOR_500(defaults.color))
              ELSE "#6366f1")

\* C17: a section below a parent whose config sets no locale has the parent's
\* resolved locale, also when it sets another theme or inherit = false.
C17_LocaleInherited ==
  (call.fn = "resolveStyle" /\ call.config.locale = None) =>
    call.result.locale = call.parent.style.locale

\* the invocations of getState that ran a scan, and those that loaded the themes
scanRuns == {r \in Requests : inflight[r].scan # None}

themeLoads == {r \in Requests : inflight[r].themes = Some([loadedBy |-> r])}

\* C18: in production mode, under every interleaving of concurrent requests,
\* the scan and the theme load run at most once and every request is served
\* from the same AppState object.
C18_BuiltOnce ==
  ~isDev =>
    /\ Cardinality(scanRuns) <= 1
    /\ Cardinality(themeLoads) <= 1
    /\ \A r1, r2 \in Requests :
         (inflight[r1].pc = "done" /\ inflight[r2].pc = "done") =>
           inflight[r1].ret = inflight[r2].ret

\* C19: in dev mode, under every interleaving of concurrent requests, the
\* AppState getState returns to a request was built by that invocation: its
\* themes are the ones it loaded and its scan is its own, made with those themes.
C19_OwnState ==
  isDev =>
    \A r \in Requests :
      inflight[r].pc = "done" =>
        LET state == The(inflight[r].ret)
        IN  /\ state.builtBy = r
            /\ state.themes = [loadedBy |-> r]
            /\ state.scan.scannedBy = r
            /\ state.scan.themes = state.themes

\* a request has its state while another, which loaded its themes first, is
\* still in flight: the theme cache was overwritten in between
C19_Witness ==
  /\ isDev
  /\ \E r1, r2 \in Requests :
       /\ r1 # r2
       /\ inflight[r1].pc = "done" /\ The(inflight[r1].ret).builtBy = r1
       /\ inflight[r2].pc = "scanContent" /\ inflight[r2].themes = Some([loadedBy |-> r2])
       /\ cache = Some([loadedBy |-> r1])

\* the key of a message in a catalog: msgid, qualified by the context when
\* one is given
catalogKey(msgid, msgctxt) ==
  IF msgctxt \in {None, Some(<<>>)} THEN msgid ELSE The(msgctxt) \o <<CONTEXT_SEP>> \o msgid

\* C20: t returns a text that is not empty for a msgid that is not empty; it
\* returns msgid for the default locale, for a locale without catalog, for a
\* key the catalog misses and for a key with an empty text, and the catalog's
\* text otherwise.
C20_TranslationFallback ==
  call.fn = "t" =>
    LET key == catalogKey(call.msgid, call.msgctxt)
        translated ==
          /\ call.locale # DEFAULT_LOCALE
          /\ call.locale \in DOMAIN call.catalogs
          /\ key \in DOMAIN call.catalogs[call.locale]
          /\ call.catalogs[call.locale][key] # <<>>
    IN  /\ call.msgid # <<>> => call.result # <<>>
        /\ ~translated => call.result = call.msgid
        /\ translated => call.result = call.catalogs[call.locale][key]

\* the text of a context-qualified key is returned although the catalog maps
\* the bare msgid to an empty text, and a catalog for the default locale exists
C20_Witness ==
  /\ call.fn = "t" /\ call.locale = "fr" /\ call.msgctxt = Some(<<"m">>)
  /\ call.msgid = <<"h">>
  /\ DOMAIN call.catalogs = {"en", "fr"}
  /\ <<"h">> \in DOMAIN call.catalogs["fr"] /\ call.catalogs["fr"][<<"h">>] = <<>>
  /\ call.result = <<"H">>

\* C21: renderPage and renderLogin render with the theme registered under
\* section.style.theme when there is one, else with the theme registered as
\* "default", else they return the minimal fallback document; whatever the
\* registry holds, they do not throw.
C21_ThemeFallback ==
  call.fn \in {"renderPage", "renderLogin"} =>
    LET th == call.section.style.theme
        doc == IF call.fn = "renderPage" THEN "page" ELSE "login"
    IN  /\ call.result # RenderError
        /\ th \in DOMAIN call.themes =>
             (call.result.doc = doc /\ call.result.theme = call.themes[th])
        /\ (th \notin DOMAIN call.themes /\ "default" \in DOMAIN call.themes) =>
             (call.result.doc = doc /\ call.result.theme = call.themes["default"])
        /\ (th \notin DOMAIN call.themes /\ "default" \notin DOMAIN call.themes) =>
             call.result = fallback404

\* C22: getAuthedPaths holds a path p only if the cookie maps p to a token
\* whose HMAC was made with the server's secret over p and the token's
\* timestamp, and whose timestamp is at most 24 hours before the current
\* time; a token made for another path authorizes nothing under p, and a
\* token older than 24 hours authorizes nothing.
C22_SignedExpiring ==
  call.fn = "getAuthedPaths" =>
    /\ \A p \in call.result :
         \E e \in call.cookie.data :
           /\ e.path = p
           /\ e.token.hmac = [key |-> AUTH_SECRET,
                              message |-> p \o <<":">> \o toString(e.token.timestamp)]
           /\ call.now - e.token.timestamp <= 24 * 60 * 60 * 1000
    /\ \A e \in call.cookie.data :
         /\ (\E q \in TokenPaths \ {e.path} :
               e.token = createAuthToken(q, AUTH_SECRET, e.token.timestamp)) =>
              e.path \notin call.result
         /\ call.now - e.token.timestamp > 24 * 60 * 60 * 1000 => e.path \notin call.result

\* the cookie holds a token of the server that is exactly 24 hours old and
\* authorizes its path, and the same token under the other path, authorizing
\* nothing there
C22_Witness ==
  /\ call.fn = "getAuthedPaths"
  /\ \E e1 \in call.cookie.data, e2 \in call.cookie.data :
       /\ e1.path # e2.path /\ e1.token = e2.token
       /\ call.now - e1.token.timestamp = TOKEN_EXPIRY
       /\ e1.path \in call.result /\ e2.path \notin call.result

\* C23: at every point of a scan, when scanDirectory starts on a child
\* directory its parent section is stored in the flat map under the parent's
\* path, and no section that was registered has the path of its parent or of
\* another ancestor, whose map entry it would have replaced.
C23_ParentIndexedFirst ==
  call.fn = "scanDirectory" =>
    LET pathOf(d) == (CHOOSE r \in {call.regs[i] : i \in 1..Len(call.regs)} : r.dirPath = d).path
    IN  /\ call.started < Len(call.regs) =>
             LET child == call.regs[call.started + 1]
             IN  child.parent # None =>
                   /\ pathOf(The(child.parent)) \in DOMAIN call.sections
                   /\ call.sections[pathOf(The(child.parent))] = The(child.parent)
        /\ \A j \in 1..call.started :
             \A k \in 0..(Len(call.regs[j].dirPath) - 1) :
               call.regs[j].path # pathOf(SubSeq(call.regs[j].dirPath, 1, k))

\* the code unit of a character of a directory name
charCode(c) ==
  CASE c = "-" -> 45
    [] c = "." -> 46
    [] c = "0" -> 48 [] c = "1" -> 49 [] c = "2" -> 50 [] c = "3" -> 51
    [] c = "4" -> 52 [] c = "5" -> 53 [] c = "6" -> 54 [] c = "7" -> 55
    [] c = "8" -> 56 [] c = "9" -> 57
    [] c = "a" -> 97 [] c = "b" -> 98 [] c = "c" -> 99 [] c = "f" -> 102

\* a comes before b in the lexicographic order of their characters
RECURSIVE lexBefore(_, _)
lexBefore(a, b) ==
  IF a = <<>> THEN b # <<>>
  ELSE IF b = <<>> THEN FALSE
  ELSE IF a[1] # b[1] THEN charCode(a[1]) < charCode(b[1])
  ELSE lexBefore(Tail(a), Tail(b))

\* the directories that are to be sections: from the root down to them every
\* directory holds a config.toml and has a name that starts with no dot
memberDirs(fsys) ==
  {d \in DOMAIN fsys :
     \A k \in 1..Len(d) :
       fsys[SubSeq(d, 1, k)].config # None /\ ~startsWith(d[k], <<".">>)}

\* C24: after a scan the sections of the flat map are the root and every
\* directory that, like all directories between the root and it, holds a
\* config.toml and has a name without a leading dot, and no other; the
\* children of a section are those of its subdirectories, in the
\* lexicographic order of their names on disk.
C24_MembersAndOrder ==
  call.fn = "scanContent" =>
    /\ {call.result.sections[p] : p \in DOMAIN call.result.sections} = memberDirs(fs)
    /\ DOMAIN call.result.arena = memberDirs(fs)
    /\ \A d \in DOMAIN call.result.arena :
         LET children == call.result.arena[d].children
         IN  /\ {children[i] : i \in 1..Len(children)}
                  = {e \in memberDirs(fs) : Len(e) = Len(d) + 1 /\ SubSeq(e, 1, Len(d)) = d}
             /\ \A i \in 1..Len(children), j \in 1..Len(children) :
                  i < j => lexBefore(children[i][Len(d) + 1], children[j][Len(d) + 1])

\* the form body carries no password that matches the section's
failedPassword(body, section) ==
  body.password = None \/ The(body.password) = <<>> \/ body.password # section.config.password

\* C25: a POST without the logout action to a section with a password, with a
\* missing, empty or non-matching password, is answered 401 with the login
\* prompt of that section and leaves the auth cookie and the authorized set
\* as they were; a POST to a section without a password is answered with a
\* redirect and leaves the cookie as it was.
C25_FailedPostKeepsCookie ==
  [][(resp'.method = "POST" /\ resp.method = "none" /\ resp'.body.action = None
        /\ resp'.path \in DOMAIN The(cached').scan.sections) =>
       LET scan == The(cached').scan
           section == scan.arena[scan.sections[resp'.path]]
       IN  /\ (hasPassword(section.config) /\ failedPassword(resp'.body, section)) =>
                /\ resp'.status = 401 /\ resp'.kind = "login"
                /\ resp'.section = Some(section.dirPath)
                /\ cookie' = cookie
                /\ getAuthedPaths(cookie', AUTH_SECRET, now') = authedNow
           /\ ~hasPassword(section.config) =>
                /\ resp'.status = 302 /\ resp'.kind = "redirect"
                /\ cookie' = cookie]_vars

\* a wrong password was posted to a section with a password by a client that
\* holds an authorization: 401, and the authorization is still there
C25_Witness ==
  /\ resp.method = "POST" /\ resp.status = 401 /\ resp.kind = "login"
  /\ resp.body.password = Some(PwY)
  /\ authedNow # {}

\* C26: after a POST to a section p with p's password, the authorized set of
\* the new cookie is the authorized set of the old cookie and p, and the
\* tokens of the other paths that were authorized are the same as before.
C26_SuccessOnlyAdds ==
  [][(resp'.method = "POST" /\ resp.method = "none" /\ resp'.body.action = None
        /\ resp'.path \in DOMAIN The(cached').scan.sections) =>
       LET scan == The(cached').scan
           section == scan.arena[scan.sections[resp'.path]]
       IN  (hasPassword(section.config) /\ resp'.body.password = section.config.password) =>
             /\ getAuthedPaths(cookie', AUTH_SECRET, now') = authedNow \cup {resp'.path}
             /\ \A e \in cookie.data :
                  (e.path \in authedNow /\ e.path # resp'.path) => e \in cookie'.data]_vars

\* the step is a POST that is answered now
postStep == resp.method = "none" /\ resp'.method = "POST"

\* C27: a POST with action=logout to a section, whatever else the body
\* carries, empties the auth cookie; a logout POST to a path that is no
\* section is answered 404 and leaves the cookie as it was; an empty
\* authorized set stays empty until a POST with a section's correct password;
\* and with an empty authorized set a GET of a protected section is answered
\* with a login prompt.
C27_LogoutRevokes ==
  /\ [][/\ (postStep /\ resp'.body.action = Some("logout")) =>
             IF resp'.path \in DOMAIN The(cached').scan.sections
             THEN /\ cookie' = EmptyCookie
                  /\ getAuthedPaths(cookie', AUTH_SECRET, now') = {}
                  /\ resp'.status = 302
             ELSE resp'.status = 404 /\ cookie' = cookie
        /\ (authedNow = {} /\ getAuthedPaths(cookie', AUTH_SECRET, now') # {}) =>
             /\ postStep /\ resp'.body.action = None
             /\ resp'.path \in DOMAIN The(cached').scan.sections
             /\ LET scan == The(cached').scan
                IN  /\ hasPassword(scan.arena[scan.sections[resp'.path]].config)
                    /\ resp'.body.password = scan.arena[scan.sections[resp'.path]].config.password]_vars
  /\ []((/\ resp.method = "GET" /\ authedNow = {}
          /\ resp.path \in DOMAIN theScan.sections
          /\ theScan.arena[theScan.sections[resp.path]].protected) => resp.kind = "login")

\* after a logout the client's cookie is empty, and its GET of a protected
\* section is answered with the login prompt
C27_Witness ==
  /\ cookie = EmptyCookie
  /\ resp.method = "GET" /\ resp.path \in DOMAIN theScan.sections
  /\ theScan.arena[theScan.sections[resp.path]].protected
  /\ resp.kind = "login"

\* the file is the config.toml of a directory of the content tree
isConfigFile(fsys, file) ==
  \E d \in DOMAIN fsys : fsys[d].config # None /\ file = absDir(d) \o <<"/">> \o ConfigName

\* C28: a GET of a path that is no section and ends in ".toml" is answered
\* 404, whatever the authorized set is and whether or not the file exists, and
\* no GET is answered with the config.toml of a section as a static file.
C28_ConfigNeverServed ==
  (resp.method = "GET" /\ resp.path \notin DOMAIN theScan.sections) =>
    /\ endsWith(resp.path, DotToml) => (resp.status = 404 /\ resp.kind = "404")
    /\ resp.kind = "file" => ~isConfigFile(fs, The(resp.file))

\* the number of sections with a password on the chain of the section at urlPath
lockCount(scan, urlPath) ==
  Cardinality({n \in chain(scan, The(sectionsGet(scan, urlPath)).dirPath) : hasPassword(n.config)})

\* C29: repeating "GET s; on a login prompt POST the right password to the
\* section the prompt is for" authorizes s within k rounds, k the number of
\* sections with a password on the chain of s, from any authorized set; and
\* the section of each prompt is strictly deeper than that of the prompt before.
C29_UnlockTerminates ==
  (call.fn = "unlock" /\ resp.method = "GET") =>
    /\ call.rounds >= lockCount(theScan, call.target) => resp.kind = "page"
    /\ (resp.kind = "login" /\ call.lockers # <<>>) =>
         Len(The(resp.section)) > Len(call.lockers[Len(call.lockers)])

\* the directories of the sections on the chain of the section of directory d
chainDirs(d) == {SubSeq(d, 1, k) : k \in 0..Len(d)}

\* C30: for every section of a scanned tree, protected is false exactly when
\* isAuthorized(section, {}) is true, also when a password is the empty
\* string; and when isAuthorized(section, S) is false, findLockingSection(section, S)
\* is a section of the chain of section with a password, whose path is not in S.
C30_FlagAgreesWithWalk ==
  /\ (call.fn = "isAuthorized" /\ call.authedPaths = {}) =>
       (theScan.arena[call.section].protected = FALSE <=> call.result = TRUE)
  /\ call.fn = "findLockingSection" =>
       LET sec == theScan.arena[call.section]
           locker == theScan.arena[call.result]
       IN  /\ call.authedPaths = {} =>
                (sec.protected = FALSE <=> isAuthorized(theScan, sec, {}))
           /\ ~isAuthorized(theScan, sec, call.authedPaths) =>
                /\ call.result \in chainDirs(call.section)
                /\ locker.config.password \notin {None, Some(<<>>)}
                /\ locker.path \notin call.authedPaths

\* findLockingSection has run with the empty set on a section whose own
\* password is the empty string below a section with a password: the section
\* is protected and the locker is an ancestor
C30_Witness ==
  /\ call.fn = "findLockingSection"
  /\ call.authedPaths = {}
  /\ theScan.arena[call.section].config.password = Some(<<>>)
  /\ theScan.arena[call.section].protected
  /\ ~isAuthorized(theScan, theScan.arena[call.section], {})
  /\ call.result # call.section

====
